---------------------------- MODULE Spec2Model ----------------------------
(***************************************************************************)
(* ExprLib: expression parser / evaluator with a function and constant     *)
(* registry (src/src/main.c holds main.c followed by exprlib.c).           *)
(*                                                                         *)
(* Texts are sequences of one-character strings, names are sequences of    *)
(* characters, doubles are exact rationals [k |-> "q", n, d] in lowest     *)
(* terms; a double the model cannot compute exactly (a transcendental      *)
(* function, an irrational constant, a magnitude beyond QCap) is the       *)
(* uninterpreted term [k |-> "sym", f, a], equal only to the same term.    *)
(***************************************************************************)
EXTENDS Integers, Sequences, FiniteSets, TLC

VARIABLES
    g_functions,    \* the function table (g_function_count is its length)
    g_constants,    \* the constant table (g_constant_count is its length)
    EXPRLIB_ERROR,  \* the process-wide last error
    expression,     \* the text the host last handed to exprlib_parse
    context,        \* the host's ExprContext: NULLCTX or a sequence of [name, slot]
    slots,          \* the host's doubles the context points to: slot -> value
    ast,            \* the host's parsed_expr pointer: NULL or a tree
    heap,           \* ids of the AST nodes that are allocated and not freed
    result,         \* what the last exprlib_evaluate returned
    evlog,          \* what the last exprlib_evaluate did, in order
    parselog,       \* what the last exprlib_parse looked up, in order
    retval,         \* what the last exprlib_register_function returned
    call,           \* the host's last step and, for a registration, its arguments
    evals,          \* number of exprlib_evaluate calls on the AST the host holds
    inits,          \* number of exprlib_init calls so far
    pc              \* where the host is: "boot", "idle", "parsed", "evaluated", "aborted"

vars == <<g_functions, g_constants, EXPRLIB_ERROR, expression, context, slots,
          ast, heap, result, evlog, parselog, retval, call, evals, inits, pc>>

----------------------------------------------------------------------------
(* ExprLibError *)
EXPRLIB_SUCCESS == 0
EXPRLIB_ERROR_SYNTAX == 1
EXPRLIB_ERROR_UNDEFINED_VARIABLE == 2
EXPRLIB_ERROR_DIVISION_BY_ZERO == 3
EXPRLIB_ERROR_MALLOC_FAILED == 4
EXPRLIB_ERROR_INVALID_ARGUMENT == 5
EXPRLIB_ERROR_FUNCTION_NOT_FOUND == 6
EXPRLIB_ERROR_NULL == 7
EXPRLIB_ERROR_DUPLICATE_FUNCTION == 8
EXPRLIB_ERROR_UNKNOWN == 9

----------------------------------------------------------------------------
(* Bounds of the model *)
QCap == 30000        \* largest numerator / denominator kept exact
MaxOps == 2          \* binary operators in a generated arithmetic text
MaxInits == 2        \* exprlib_init calls in one run
MaxEvals == 2        \* exprlib_evaluate calls on one AST
MaxArgs == 2         \* arguments of a generated call

----------------------------------------------------------------------------
(* double, as far as the model computes it *)
Q(n, d) == [k |-> "q", n |-> n, d |-> d]
Sym(f, a) == [k |-> "sym", f |-> f, a |-> a]
IsQ(v) == v.k = "q"
Abs(i) == IF i < 0 THEN -i ELSE i

RECURSIVE Gcd(_, _)
Gcd(a, b) == IF b = 0 THEN a ELSE Gcd(b, a % b)

\* n/d (d # 0, both within QCap * QCap) in lowest terms with d > 0
Norm(n, d) ==
    LET g == Gcd(Abs(n), Abs(d))
        s == IF d < 0 THEN -1 ELSE 1
    IN  Q((s * n) \div g, Abs(d) \div g)

Fits(v) == IsQ(v) /\ Abs(v.n) <= QCap /\ v.d <= QCap
Keep(v, f, a) == IF Fits(v) THEN v ELSE Sym(f, a)

Zero == Q(0, 1)
One == Q(1, 1)
IsZero(v) == IsQ(v) /\ v.n = 0
IsInt(v) == IsQ(v) /\ v.d = 1

DAdd(l, r) ==
    IF IsQ(l) /\ IsQ(r)
    THEN Keep(Norm(l.n * r.d + r.n * l.d, l.d * r.d), "+", <<l, r>>)
    ELSE Sym("+", <<l, r>>)
DSub(l, r) ==
    IF IsQ(l) /\ IsQ(r)
    THEN Keep(Norm(l.n * r.d - r.n * l.d, l.d * r.d), "-", <<l, r>>)
    ELSE Sym("-", <<l, r>>)
DMul(l, r) ==
    IF IsQ(l) /\ IsQ(r)
    THEN Keep(Norm(l.n * r.n, l.d * r.d), "*", <<l, r>>)
    ELSE Sym("*", <<l, r>>)
\* IEEE division: a zero divisor gives inf or nan, never an error
DDiv(l, r) ==
    IF IsQ(l) /\ IsQ(r) /\ r.n # 0
    THEN Keep(Norm(l.n * r.d, l.d * r.n), "/", <<l, r>>)
    ELSE Sym("/", <<l, r>>)
DLess(l, r) == IsQ(l) /\ IsQ(r) /\ l.n * r.d < r.n * l.d

\* b^e for naturals, -1 once the product passes QCap
RECURSIVE NatPow(_, _, _)
NatPow(b, e, acc) ==
    IF e = 0 THEN acc
    ELSE IF b <= 1 THEN b
    ELSE IF acc * b > QCap THEN -1
    ELSE NatPow(b, e - 1, acc * b)

\* pow() of libm on an integer exponent; anything else stays a term
DPow(l, r) ==
    IF IsQ(l) /\ IsInt(r) /\ (r.n >= 0 \/ l.n # 0)
    THEN LET e == Abs(r.n)
             pn == NatPow(Abs(l.n), e, 1)
             pd == NatPow(l.d, e, 1)
             sg == IF l.n < 0 /\ e % 2 = 1 THEN -1 ELSE 1
         IN  IF pn < 0 \/ pd < 0 THEN Sym("^", <<l, r>>)
             ELSE IF r.n >= 0 THEN Norm(sg * pn, pd)
             ELSE Norm(sg * pd, pn)
    ELSE Sym("^", <<l, r>>)

\* (int)a: truncation toward zero
Trunc(v) == IF v.n >= 0 THEN v.n \div v.d ELSE -((-v.n) \div v.d)
Floor(v) == v.n \div v.d
Ceil(v) == -((-v.n) \div v.d)

RECURSIVE IntSqrt(_, _)
IntSqrt(n, i) == IF i * i >= n THEN i ELSE IntSqrt(n, i + 1)
IsSquare(n) == n >= 0 /\ IntSqrt(n, 0) * IntSqrt(n, 0) = n

----------------------------------------------------------------------------
(* Names: C strings as sequences of characters *)
S_sin == <<"s", "i", "n">>
S_max == <<"m", "a", "x">>
S_nCr == <<"n", "C", "r">>
S_pi == <<"p", "i">>
S_e == <<"e">>
S_f == <<"f">>
S_x == <<"x">>
S_z == <<"z">>
S_a == <<"a">>
S_empty == <<>>
\* a NULL char pointer: no character sequence equals it
NULLSTR == <<"(null)", "(null)">>

----------------------------------------------------------------------------
(* The native functions, by the name of the C function.  s is the state of *)
(* the running evaluation: [err, log, abort].  A failed assert() aborts    *)
(* the process (the Makefile does not define NDEBUG).                      *)

Ret(v, s) == [val |-> v, s |-> s]
AssertFail(s) == Ret(Zero, [s EXCEPT !.abort = TRUE])
\* one entry of evlog / parselog
Event(ev, path, code, name, fn, args) ==
    [ev |-> ev, path |-> path, code |-> code, name |-> name, fn |-> fn, args |-> args]
\* EXPRLIB_ERROR = e
SetErr(s, e) == [s EXCEPT !.err = e, !.log = Append(@, Event("error", <<>>, e, <<>>, "NULL", <<>>))]

\* a libm function of one argument the model has no exact value for
Libm(f, a) ==
    LET x == a[1]
    IN  CASE f \in {"sin", "tan", "asin", "atan", "cbrt"} /\ IsZero(x) -> Zero
          [] f \in {"cos", "exp"} /\ IsZero(x) -> One
          [] f = "acos" /\ x = One -> Zero
          [] f \in {"log", "log10"} /\ x = One -> Zero
          [] f = "cbrt" /\ x = One -> One
          [] f = "sqrt" /\ IsQ(x) /\ IsSquare(x.n) /\ IsSquare(x.d) ->
                Q(IntSqrt(x.n, 0), IntSqrt(x.d, 0))
          [] f = "fabs" /\ IsQ(x) -> Q(Abs(x.n), x.d)
          [] f = "floor" /\ IsQ(x) -> Q(Floor(x), 1)
          [] f = "ceil" /\ IsQ(x) -> Q(Ceil(x), 1)
          [] f = "round" /\ IsQ(x) ->
                IF x.n >= 0 THEN Q(Floor(Norm(2 * x.n + x.d, 2 * x.d)), 1)
                ELSE Q(Ceil(Norm(2 * x.n - x.d, 2 * x.d)), 1)
          [] OTHER -> Sym(f, a)

M_PI == Sym("M_PI", <<>>)
M_E == Sym("M_E", <<>>)
M_SQRT2 == Sym("M_SQRT2", <<>>)
M_LN2 == Sym("M_LN2", <<>>)
M_LN10 == Sym("M_LN10", <<>>)
M_LOG2E == Sym("M_LOG2E", <<>>)
M_LOG10E == Sym("M_LOG10E", <<>>)

RECURSIVE fn_min_loop(_, _, _)
fn_min_loop(a, i, min_val) ==
    IF i > Len(a) THEN min_val
    ELSE fn_min_loop(a, i + 1, IF DLess(a[i], min_val) THEN a[i] ELSE min_val)

RECURSIVE fn_max_loop(_, _, _)
fn_max_loop(a, i, max_val) ==
    IF i > Len(a) THEN max_val
    ELSE fn_max_loop(a, i + 1, IF DLess(max_val, a[i]) THEN a[i] ELSE max_val)

RECURSIVE factorial_loop(_, _, _)
factorial_loop(i, top, res) ==
    IF i > top THEN res ELSE factorial_loop(i + 1, top, DMul(res, Q(i, 1)))

\* factorial's value for a[0] >= 0 (lines 196-200)
factorial_value(x) ==
    IF IsQ(x) THEN factorial_loop(1, Trunc(x), One) ELSE Sym("factorial", <<x>>)

factorial(a, s) ==
    IF Len(a) # 1 THEN AssertFail(s)
    ELSE IF DLess(a[1], Zero) THEN Ret(Zero, SetErr(s, EXPRLIB_ERROR_INVALID_ARGUMENT))
    ELSE Ret(factorial_value(a[1]), s)

\* an nCr that does not test a[1] > a[0]
nCr_without_order_test(a, s) ==
    IF Len(a) # 2 THEN AssertFail(s)
    ELSE IF DLess(a[1], Zero) \/ DLess(a[2], Zero)
    THEN Ret(Zero, SetErr(s, EXPRLIB_ERROR_INVALID_ARGUMENT))
    ELSE Ret(DDiv(factorial_value(a[1]),
                  DMul(factorial_value(a[2]), factorial_value(DSub(a[1], a[2])))), s)

nCr(a, s) ==
    IF Len(a) # 2 THEN AssertFail(s)
    ELSE IF DLess(a[1], Zero) \/ DLess(a[2], Zero) \/ DLess(a[1], a[2])
    THEN Ret(Zero, SetErr(s, EXPRLIB_ERROR_INVALID_ARGUMENT))
    ELSE Ret(DDiv(factorial_value(a[1]),
                  DMul(factorial_value(a[2]), factorial_value(DSub(a[1], a[2])))), s)

nPr(a, s) ==
    IF Len(a) # 2 THEN AssertFail(s)
    ELSE IF DLess(a[1], Zero) \/ DLess(a[2], Zero) \/ DLess(a[1], a[2])
    THEN Ret(Zero, SetErr(s, EXPRLIB_ERROR_INVALID_ARGUMENT))
    ELSE Ret(DDiv(factorial_value(a[1]), factorial_value(DSub(a[1], a[2]))), s)

\* fn_sin .. fn_rad2deg: assert(n == 1) (fn_pow: n == 2), then the libm call
Unary(a, s, v) == IF Len(a) # 1 THEN AssertFail(s) ELSE Ret(v, s)

fn_min(a, s) == IF Len(a) < 1 THEN AssertFail(s) ELSE Ret(fn_min_loop(a, 2, a[1]), s)
fn_max(a, s) == IF Len(a) < 1 THEN AssertFail(s) ELSE Ret(fn_max_loop(a, 2, a[1]), s)

\* the README's user function: max(a, b) with assert(n == 2)
user_fn_max(a, s) ==
    IF Len(a) # 2 THEN AssertFail(s)
    ELSE Ret(IF DLess(a[2], a[1]) THEN a[1] ELSE a[2], s)

\* fn->fn(argv, argc)
CallNative(fn, a, s) ==
    CASE fn = "fn_sin" -> Unary(a, s, Libm("sin", a))
      [] fn = "fn_cos" -> Unary(a, s, Libm("cos", a))
      [] fn = "fn_tan" -> Unary(a, s, Libm("tan", a))
      [] fn = "fn_cot" -> Unary(a, s, DDiv(One, Libm("tan", a)))
      [] fn = "fn_sec" -> Unary(a, s, DDiv(One, Libm("cos", a)))
      [] fn = "fn_cosec" -> Unary(a, s, DDiv(One, Libm("sin", a)))
      [] fn = "fn_asin" -> Unary(a, s, Libm("asin", a))
      [] fn = "fn_acos" -> Unary(a, s, Libm("acos", a))
      [] fn = "fn_atan" -> Unary(a, s, Libm("atan", a))
      [] fn = "fn_pow" -> IF Len(a) # 2 THEN AssertFail(s) ELSE Ret(DPow(a[1], a[2]), s)
      [] fn = "fn_sqrt" -> Unary(a, s, Libm("sqrt", a))
      [] fn = "fn_cbrt" -> Unary(a, s, Libm("cbrt", a))
      [] fn = "fn_log" -> Unary(a, s, Libm("log", a))
      [] fn = "fn_log10" -> Unary(a, s, Libm("log10", a))
      [] fn = "fn_exp" -> Unary(a, s, Libm("exp", a))
      [] fn = "fn_abs" -> Unary(a, s, Libm("fabs", a))
      [] fn = "fn_floor" -> Unary(a, s, Libm("floor", a))
      [] fn = "fn_ceil" -> Unary(a, s, Libm("ceil", a))
      [] fn = "fn_round" -> Unary(a, s, Libm("round", a))
      [] fn = "fn_deg2rad" -> Unary(a, s, DMul(a[1], DDiv(M_PI, Q(180, 1))))
      [] fn = "fn_rad2deg" -> Unary(a, s, DMul(a[1], DDiv(Q(180, 1), M_PI)))
      [] fn = "fn_min" -> fn_min(a, s)
      [] fn = "fn_max" -> fn_max(a, s)
      [] fn = "factorial" -> factorial(a, s)
      [] fn = "nCr" -> nCr(a, s)
      [] fn = "nPr" -> nPr(a, s)
      [] fn = "user_fn_max" -> user_fn_max(a, s)

----------------------------------------------------------------------------
(* The registry *)

\* a registration without the scan for a duplicate name
register_without_scan(fns, err, name, arity, fn, oom) ==
    IF name = NULLSTR \/ name = S_empty \/ fn = "NULL"
    THEN [ok |-> FALSE, fns |-> fns, err |-> EXPRLIB_ERROR_NULL]
    ELSE IF arity < -1
    THEN [ok |-> FALSE, fns |-> fns, err |-> EXPRLIB_ERROR_INVALID_ARGUMENT]
    ELSE IF oom # "none"
    THEN [ok |-> FALSE, fns |-> fns, err |-> EXPRLIB_ERROR_MALLOC_FAILED]
    ELSE [ok |-> TRUE,
          fns |-> Append(fns, [name |-> name, arity |-> arity, fn |-> fn]),
          err |-> err]

\* a registration that scans for a duplicate name before it tests the arity
register_scan_first(fns, err, name, arity, fn, oom) ==
    IF name = NULLSTR \/ name = S_empty \/ fn = "NULL"
    THEN [ok |-> FALSE, fns |-> fns, err |-> EXPRLIB_ERROR_NULL]
    ELSE IF \E i \in 1..Len(fns) : fns[i].name = name
    THEN [ok |-> FALSE, fns |-> fns, err |-> EXPRLIB_ERROR_DUPLICATE_FUNCTION]
    ELSE IF arity < -1
    THEN [ok |-> FALSE, fns |-> fns, err |-> EXPRLIB_ERROR_INVALID_ARGUMENT]
    ELSE IF oom # "none"
    THEN [ok |-> FALSE, fns |-> fns, err |-> EXPRLIB_ERROR_MALLOC_FAILED]
    ELSE [ok |-> TRUE,
          fns |-> Append(fns, [name |-> name, arity |-> arity, fn |-> fn]),
          err |-> err]

\* exprlib_register_function on the table fns with last error err; oom names
\* the allocation that fails: "none", "strdup" or "realloc"
exprlib_register_function(fns, err, name, arity, fn, oom) ==
    IF name = NULLSTR \/ name = S_empty \/ fn = "NULL"
    THEN [ok |-> FALSE, fns |-> fns, err |-> EXPRLIB_ERROR_NULL]
    ELSE IF arity < -1
    THEN [ok |-> FALSE, fns |-> fns, err |-> EXPRLIB_ERROR_INVALID_ARGUMENT]
    ELSE IF \E i \in 1..Len(fns) : fns[i].name = name
    THEN [ok |-> FALSE, fns |-> fns, err |-> EXPRLIB_ERROR_DUPLICATE_FUNCTION]
    ELSE IF oom # "none"
    THEN [ok |-> FALSE, fns |-> fns, err |-> EXPRLIB_ERROR_MALLOC_FAILED]
    ELSE [ok |-> TRUE,
          fns |-> Append(fns, [name |-> name, arity |-> arity, fn |-> fn]),
          err |-> err]

\* find_function: the first entry of that name, or NULL
NOFN == [name |-> NULLSTR, arity |-> 0, fn |-> "NULL"]
find_function(fns, name) ==
    IF \E i \in 1..Len(fns) : fns[i].name = name
    THEN fns[CHOOSE i \in 1..Len(fns) :
                 fns[i].name = name /\ \A j \in 1..(i - 1) : fns[j].name # name]
    ELSE NOFN

\* exprlib_register_constant (its allocations succeed)
exprlib_register_constant(consts, name, value) ==
    Append(consts, [name |-> name, value |-> value])

\* the exprlib_register_function calls of exprlib_register_builtins, in order
BuiltinFunctions ==
    << <<S_sin, 1, "fn_sin">>,
       <<<<"c", "o", "s">>, 1, "fn_cos">>,
       <<<<"t", "a", "n">>, 1, "fn_tan">>,
       <<<<"c", "o", "t">>, 1, "fn_cot">>,
       <<<<"s", "e", "c">>, 1, "fn_sec">>,
       <<<<"c", "o", "s", "e", "c">>, 1, "fn_cosec">>,
       <<<<"a", "s", "i", "n">>, 1, "fn_asin">>,
       <<<<"a", "c", "o", "s">>, 1, "fn_acos">>,
       <<<<"a", "t", "a", "n">>, 1, "fn_atan">>,
       <<<<"p", "o", "w">>, 2, "fn_pow">>,
       <<<<"s", "q", "r", "t">>, 1, "fn_sqrt">>,
       <<<<"c", "b", "r", "t">>, 1, "fn_cbrt">>,
       <<<<"l", "n">>, 1, "fn_log">>,
       <<<<"l", "o", "g", "1", "0">>, 1, "fn_log10">>,
       <<<<"e", "x", "p">>, 1, "fn_exp">>,
       <<<<"a", "b", "s">>, 1, "fn_abs">>,
       <<<<"f", "l", "o", "o", "r">>, 1, "fn_floor">>,
       <<<<"c", "e", "i", "l">>, 1, "fn_ceil">>,
       <<<<"r", "o", "u", "n", "d">>, 1, "fn_round">>,
       <<<<"d", "e", "g", "2", "r", "a", "d">>, 1, "fn_deg2rad">>,
       <<<<"r", "a", "d", "2", "d", "e", "g">>, 1, "fn_rad2deg">>,
       <<<<"m", "i", "n">>, -1, "fn_min">>,
       <<S_max, -1, "fn_max">>,
       <<<<"f", "a", "c", "t", "o", "r", "i", "a", "l">>, 1, "factorial">>,
       <<S_nCr, 2, "nCr">>,
       <<<<"n", "P", "r">>, 2, "nPr">> >>

\* the exprlib_register_constant calls of exprlib_register_builtins, in order
BuiltinConstants ==
    << <<S_pi, M_PI>>,
       <<S_e, M_E>>,
       <<<<"t", "a", "u">>, DMul(Q(2, 1), M_PI)>>,
       <<<<"p", "h", "i">>, DDiv(DAdd(One, Libm("sqrt", <<Q(5, 1)>>)), Q(2, 1))>>,
       <<<<"s", "q", "r", "t", "2">>, M_SQRT2>>,
       <<<<"s", "q", "r", "t", "3">>, Libm("sqrt", <<Q(3, 1)>>)>>,
       <<<<"s", "q", "r", "t", "5">>, Libm("sqrt", <<Q(5, 1)>>)>>,
       <<<<"l", "n", "2">>, M_LN2>>,
       <<<<"l", "n", "1", "0">>, M_LN10>>,
       <<<<"l", "o", "g", "2", "e">>, M_LOG2E>>,
       <<<<"l", "o", "g", "1", "0", "e">>, M_LOG10E>>,
       <<<<"i", "n", "v", "p", "i">>, DDiv(One, M_PI)>>,
       <<<<"i", "n", "v", "2", "p", "i">>, DDiv(One, DMul(Q(2, 1), M_PI))>> >>

RECURSIVE RegisterFunctions(_, _, _)
RegisterFunctions(fns, list, i) ==
    IF i > Len(list) THEN fns
    ELSE RegisterFunctions(
             exprlib_register_function(fns, EXPRLIB_SUCCESS, list[i][1], list[i][2],
                                       list[i][3], "none").fns,
             list, i + 1)

RECURSIVE RegisterConstants(_, _, _)
RegisterConstants(consts, list, i) ==
    IF i > Len(list) THEN consts
    ELSE RegisterConstants(exprlib_register_constant(consts, list[i][1], list[i][2]),
                           list, i + 1)

\* exprlib_register_builtins, on the tables as exprlib_init leaves them
exprlib_register_builtins(fns, consts) ==
    [fns |-> RegisterFunctions(fns, BuiltinFunctions, 1),
     consts |-> RegisterConstants(consts, BuiltinConstants, 1)]

\* exprlib_init: g_functions = NULL, g_function_count = 0, then the built-ins;
\* g_constants is not reset
exprlib_init(consts) == exprlib_register_builtins(<<>>, consts)

----------------------------------------------------------------------------
(* Characters and AST nodes *)
NUL == "NUL"      \* the terminating '\0' of a text
CharAt(text, p) == IF p <= Len(text) THEN text[p] ELSE NUL
Digits == <<"0", "1", "2", "3", "4", "5", "6", "7", "8", "9">>
IsDigit(c) == \E i \in 1..10 : Digits[i] = c
DigitVal(c) == (CHOOSE i \in 1..10 : Digits[i] = c) - 1
Letters ==
    {"a", "b", "c", "d", "e", "f", "g", "h", "i", "j", "k", "l", "m", "n", "o", "p",
     "q", "r", "s", "t", "u", "v", "w", "x", "y", "z",
     "A", "B", "C", "D", "E", "F", "G", "H", "I", "J", "K", "L", "M", "N", "O", "P",
     "Q", "R", "S", "T", "U", "V", "W", "X", "Y", "Z"}
IsAlpha(c) == c \in Letters

NULL == [type |-> "NULL"]
NULLCTX == <<"(null)">>     \* a NULL ExprContext pointer

\* get_precedence with * and / given the precedence of + and -
get_precedence_flat(op) ==
    CASE op \in {"+", "-", "*", "/"} -> 10
      [] op = "^" -> 30
      [] OTHER -> -1

get_precedence(op) ==
    CASE op \in {"+", "-"} -> 10
      [] op \in {"*", "/"} -> 20
      [] op = "^" -> 30
      [] OTHER -> -1

is_right_associative(op) == op = "^"

\* while (**expr_ptr == ' ') (*expr_ptr)++;
RECURSIVE SkipSpaces(_, _)
SkipSpaces(text, p) == IF CharAt(text, p) = " " THEN SkipSpaces(text, p + 1) ELSE p

RECURSIVE ScanInt(_, _, _, _)
ScanInt(text, p, value, found) ==
    IF IsDigit(CharAt(text, p))
    THEN ScanInt(text, p + 1,
                 DAdd(DMul(value, Q(10, 1)), Q(DigitVal(CharAt(text, p)), 1)), TRUE)
    ELSE [found |-> found, value |-> value, pos |-> p]

RECURSIVE ScanFrac(_, _, _, _)
ScanFrac(text, p, value, frac) ==
    IF IsDigit(CharAt(text, p))
    THEN ScanFrac(text, p + 1,
                  DAdd(value, DMul(Q(DigitVal(CharAt(text, p)), 1), frac)),
                  DMul(frac, Q(1, 10)))
    ELSE [value |-> value, pos |-> p]

\* parse_number: [found, value, pos]; found is set by an integer digit only,
\* the '.' and the digits after it are consumed either way
parse_number(text, p) ==
    LET i == ScanInt(text, SkipSpaces(text, p), Zero, FALSE)
    IN  IF CharAt(text, i.pos) = "."
        THEN LET f == ScanFrac(text, i.pos + 1, i.value, Q(1, 10))
             IN  [found |-> i.found, value |-> f.value, pos |-> f.pos]
        ELSE i

\* the outcomes of reading context->var_count through a NULL context
NullReads == {"trap", "absent", "present"}

\* a lookup that finds every name
is_defined_always(name, ctx, consts, nullread) == "true"

\* is_defined_variable: "true", "false", or "trap" (the read of a NULL context faults)
is_defined_variable(name, ctx, consts, nullread) ==
    IF \E i \in 1..Len(consts) : consts[i].name = name THEN "true"
    ELSE IF ctx = NULLCTX
    THEN (CASE nullread = "trap" -> "trap"
            [] nullread = "absent" -> "false"
            [] OTHER -> "true")
    ELSE IF \E i \in 1..Len(ctx) : ctx[i].name = name THEN "true" ELSE "false"

(* The state of a running exprlib_parse:                                   *)
(*   pos    the cursor *expr_ptr            err   EXPRLIB_ERROR            *)
(*   fuel   allocations that still succeed (-1: all of them)               *)
(*   next   the id of the next node         heap  ids of the live nodes    *)
(*   bad    a node was freed that was not live                            *)
(*   trap   the process faulted             log   identifiers looked up    *)
PR(node, s) == [node |-> node, s |-> s]

\* malloc / strdup / realloc: whether it succeeds, and the state after it
AllocOk(s) == s.fuel # 0
Alloc(s) == IF s.fuel > 0 THEN [s EXCEPT !.fuel = @ - 1] ELSE s

\* ids of the nodes of a tree
RECURSIVE NodeIds(_)
NodeIds(node) ==
    CASE node.type = "NUMBER" -> {node.id}
      [] node.type = "VARIABLE" -> {node.id}
      [] node.type = "OPERATOR" -> NodeIds(node.left) \cup NodeIds(node.right) \cup {node.id}
      [] node.type = "FUNCTION_CALL" ->
            UNION {NodeIds(node.args[i]) : i \in 1..Len(node.args)} \cup {node.id}
      [] OTHER -> {}

\* exprlib_free: every node of the tree is handed to free() once
exprlib_free(node, s) ==
    IF node = NULL THEN s
    ELSE [s EXCEPT !.heap = @ \ NodeIds(node),
                   !.bad = @ \/ ~(NodeIds(node) \subseteq s.heap)]

RECURSIVE FreeArgs(_, _, _)
FreeArgs(args, i, s) ==
    IF i > Len(args) THEN s ELSE FreeArgs(args, i + 1, exprlib_free(args[i], s))

create_number_node(value, s) ==
    LET s0 == [s EXCEPT !.err = EXPRLIB_SUCCESS]
    IN  IF ~AllocOk(s0) THEN PR(NULL, [s0 EXCEPT !.err = EXPRLIB_ERROR_MALLOC_FAILED])
        ELSE PR([type |-> "NUMBER", id |-> s0.next, number |-> value],
                [Alloc(s0) EXCEPT !.next = @ + 1, !.heap = @ \cup {s0.next}])

\* the strdup of the name is not checked: on failure the node holds NULL
create_variable_node(name, s) ==
    LET s0 == [s EXCEPT !.err = EXPRLIB_SUCCESS]
        s1 == [Alloc(s0) EXCEPT !.next = @ + 1, !.heap = @ \cup {s0.next}]
    IN  IF ~AllocOk(s0) THEN PR(NULL, [s0 EXCEPT !.err = EXPRLIB_ERROR_MALLOC_FAILED])
        ELSE PR([type |-> "VARIABLE", id |-> s0.next,
                 variable_name |-> IF AllocOk(s1) THEN name ELSE NULLSTR],
                Alloc(s1))

create_operator_node(op, left, right, s) ==
    LET s0 == [s EXCEPT !.err = EXPRLIB_SUCCESS]
    IN  IF ~AllocOk(s0) THEN PR(NULL, [s0 EXCEPT !.err = EXPRLIB_ERROR_MALLOC_FAILED])
        ELSE PR([type |-> "OPERATOR", id |-> s0.next, op |-> op,
                 left |-> left, right |-> right],
                [Alloc(s0) EXCEPT !.next = @ + 1, !.heap = @ \cup {s0.next}])

\* does not reset EXPRLIB_ERROR
create_function_node(name, args, s) ==
    IF ~AllocOk(s) THEN PR(NULL, [s EXCEPT !.err = EXPRLIB_ERROR_MALLOC_FAILED])
    ELSE LET s1 == Alloc(s)
         IN  IF ~AllocOk(s1)
             THEN PR(NULL, [s1 EXCEPT !.err = EXPRLIB_ERROR_MALLOC_FAILED])
             ELSE PR([type |-> "FUNCTION_CALL", id |-> s1.next, name |-> name,
                      args |-> args],
                     [Alloc(s1) EXCEPT !.next = @ + 1, !.heap = @ \cup {s1.next}])

----------------------------------------------------------------------------
(* The parser.  E = [text, ctx, consts, nullread] is what one exprlib_parse *)
(* call reads and never changes.                                           *)

RECURSIVE parse_unary(_, _)
RECURSIVE parse_binary_rhs(_, _, _, _)
RECURSIVE parse_internal(_, _)
RECURSIVE parse_args(_, _, _)

Failed(r) == r.node = NULL \/ r.s.err # EXPRLIB_SUCCESS

\* lines 514-520: node = create_operator_node('-', zero, operand)
MinusNode(zero, operand, node) ==
    IF Failed(node)
    THEN PR(NULL, exprlib_free(operand.node, exprlib_free(zero.node, node.s)))
    ELSE node

\* lines 509-514: zero = create_number_node(0.0)
MinusZero(operand, zero) ==
    IF Failed(zero) THEN PR(NULL, exprlib_free(operand.node, zero.s))
    ELSE MinusNode(zero, operand,
                   create_operator_node("-", zero.node, operand.node, zero.s))

\* lines 506-509: operand = parse_unary(...) after the '-'
UnaryMinus(operand) ==
    IF Failed(operand) THEN PR(NULL, operand.s)
    ELSE MinusZero(operand, create_number_node(Zero, operand.s))

\* lines 527-542: node = parse_internal(...) after the '(', then the ')'
Paren(E, node) ==
    IF Failed(node) THEN PR(NULL, node.s)
    ELSE IF CharAt(E.text, node.s.pos) # ")"
    THEN PR(NULL, exprlib_free(node.node, SetErr(node.s, EXPRLIB_ERROR_SYNTAX)))
    ELSE PR(node.node, [node.s EXCEPT !.pos = @ + 1])

\* lines 589-634: one turn of the argument loop after arg = parse_internal(...);
\* [ok, args, s]
ArgParsed(E, args, arg) ==
    LET s1 == Alloc(arg.s)
        args1 == Append(args, arg.node)
        p == SkipSpaces(E.text, arg.s.pos)
        c == CharAt(E.text, p)
    IN  IF Failed(arg)
        THEN [ok |-> FALSE, args |-> args, s |-> FreeArgs(args, 1, arg.s)]
        ELSE IF ~AllocOk(arg.s)
        THEN [ok |-> FALSE, args |-> args,
              s |-> FreeArgs(args, 1,
                        exprlib_free(arg.node,
                                     SetErr(arg.s, EXPRLIB_ERROR_MALLOC_FAILED)))]
        ELSE IF c = ","
        THEN parse_args(E, args1, [s1 EXCEPT !.pos = SkipSpaces(E.text, p + 1)])
        ELSE IF c = ")"
        THEN [ok |-> TRUE, args |-> args1, s |-> [s1 EXCEPT !.pos = p]]
        ELSE [ok |-> FALSE, args |-> args1,
              s |-> FreeArgs(args1, 1,
                        SetErr([s1 EXCEPT !.pos = p], EXPRLIB_ERROR_SYNTAX))]

parse_args(E, args, s) == ArgParsed(E, args, parse_internal(E, s))

\* lines 651-661: fn_node = create_function_node(name, args, argc)
CallNode(args, fn_node) ==
    IF fn_node.node = NULL THEN PR(NULL, FreeArgs(args, 1, fn_node.s)) ELSE fn_node

\* lines 637-651: the closing ')' after the argument list r = [ok, args, s]
CallClose(E, name, r) ==
    IF ~r.ok THEN PR(NULL, r.s)
    ELSE IF CharAt(E.text, r.s.pos) # ")"
    THEN PR(NULL, FreeArgs(r.args, 1, SetErr(r.s, EXPRLIB_ERROR_SYNTAX)))
    ELSE CallNode(r.args,
                  create_function_node(name, r.args, [r.s EXCEPT !.pos = @ + 1]))

\* lines 574-662: a function call, the cursor after the '('
FunctionCall(E, name, s) ==
    LET p == SkipSpaces(E.text, s.pos)
    IN  CallClose(E, name,
                  IF CharAt(E.text, p) # ")"
                  THEN parse_args(E, <<>>, [s EXCEPT !.pos = p])
                  ELSE [ok |-> TRUE, args |-> <<>>, s |-> [s EXCEPT !.pos = p]])

\* the identifier characters from p on: the position after them
RECURSIVE ScanIdent(_, _)
ScanIdent(text, p) ==
    IF IsAlpha(CharAt(text, p)) \/ IsDigit(CharAt(text, p)) \/ CharAt(text, p) = "_"
    THEN ScanIdent(text, p + 1)
    ELSE p

\* lines 664-674: a bare identifier, d = is_defined_variable(name, context)
Variable(name, d, s) ==
    CASE d = "trap" -> PR(NULL, [s EXCEPT !.trap = TRUE])
      [] d = "false" -> PR(NULL, SetErr(s, EXPRLIB_ERROR_UNDEFINED_VARIABLE))
      [] OTHER -> create_variable_node(name, s)

\* what parselog keeps of a lookup
Looked(name, d, s) ==
    [s EXCEPT !.log = Append(@, Event("lookup", <<>>, 0, name, "NULL", <<d>>))]

\* lines 551-675: an identifier, the cursor on its first letter
Identifier(E, s) ==
    LET stop == ScanIdent(E.text, s.pos)
        name == SubSeq(E.text, s.pos, stop - 1)
        s1 == [s EXCEPT !.pos = stop]
        look == SkipSpaces(E.text, stop)
        d == is_defined_variable(name, E.ctx, E.consts, E.nullread)
    IN  IF ~AllocOk(s1) THEN PR(NULL, SetErr(s1, EXPRLIB_ERROR_MALLOC_FAILED))
        ELSE IF CharAt(E.text, look) = "("
        THEN FunctionCall(E, name, [Alloc(s1) EXCEPT !.pos = look + 1])
        ELSE Variable(name, d, Looked(name, d, Alloc(s1)))

\* lines 544-680: number, identifier, or a syntax error
Operand(E, s) ==
    LET num == parse_number(E.text, s.pos)
        s1 == [s EXCEPT !.pos = num.pos]
    IN  IF num.found THEN create_number_node(num.value, s1)
        ELSE IF IsAlpha(CharAt(E.text, s1.pos)) THEN Identifier(E, s1)
        ELSE PR(NULL, SetErr(s1, EXPRLIB_ERROR_SYNTAX))

parse_unary(E, s) ==
    LET p == SkipSpaces(E.text, s.pos)
        c == CharAt(E.text, p)
    IN  CASE c = "-" -> UnaryMinus(parse_unary(E, [s EXCEPT !.pos = p + 1]))
          [] c = "(" -> Paren(E, parse_internal(E, [s EXCEPT !.pos = p + 1]))
          [] OTHER -> Operand(E, [s EXCEPT !.pos = p])

\* lines 721-748: the switch of the fold
FoldValue(op, left_val, right_val) ==
    CASE op = "+" -> DAdd(left_val, right_val)
      [] op = "-" -> DSub(left_val, right_val)
      [] op = "*" -> DMul(left_val, right_val)
      [] op = "/" -> DDiv(left_val, right_val)
      [] op = "^" -> DPow(left_val, right_val)

\* lines 750-756 and 758-763: the node that replaces lhs; [go, node, s], go
\* saying whether the loop of parse_binary_rhs goes on
Replaced(made, s) ==
    IF Failed(made) THEN [go |-> FALSE, node |-> NULL, s |-> s]
    ELSE [go |-> TRUE, node |-> made.node, s |-> made.s]

FreeBoth(lhs, rhs, s) == exprlib_free(rhs, exprlib_free(lhs, s))

\* a parser that folds nothing
Folds_never(lhs, rhs) == FALSE

\* whether two operands are folded (line 716)
Folds(lhs, rhs) == lhs.type = "NUMBER" /\ rhs.type = "NUMBER"

\* lines 716-763: fold two numbers or build the operator node
Combine(op, lhs, rhs, s) ==
    IF Folds(lhs, rhs)
    THEN IF op = "/" /\ IsZero(rhs.number)
         THEN [go |-> FALSE, node |-> NULL,
               s |-> FreeBoth(lhs, rhs, SetErr(s, EXPRLIB_ERROR_DIVISION_BY_ZERO))]
         ELSE IF op \notin {"+", "-", "*", "/", "^"}
         THEN [go |-> FALSE, node |-> NULL,
               s |-> FreeBoth(lhs, rhs, SetErr(s, EXPRLIB_ERROR_UNKNOWN))]
         ELSE LET made == create_number_node(FoldValue(op, lhs.number, rhs.number),
                                             FreeBoth(lhs, rhs, s))
              IN  Replaced(made, made.s)
    ELSE LET made == create_operator_node(op, lhs, rhs, s)
         IN  Replaced(made, exprlib_free(rhs, made.s))

\* whether the right operand takes the operators that follow it (lines 706-709)
BindsRight(op, tok_prec, next_prec) ==
    tok_prec < next_prec \/ (tok_prec = next_prec /\ is_right_associative(op))

\* line 756 / the end of the loop body: the next turn, or the failure
NextTurn(E, expr_prec, c) ==
    IF c.go THEN parse_binary_rhs(E, expr_prec, c.node, c.s) ELSE PR(NULL, c.s)

\* lines 710-716: rhs as it is after the operators it takes
RightDone(E, expr_prec, op, lhs, rhs) ==
    IF rhs.node = NULL THEN PR(NULL, exprlib_free(lhs, rhs.s))
    ELSE NextTurn(E, expr_prec, Combine(op, lhs, rhs.node, rhs.s))

\* lines 697-709: rhs = parse_unary(...), then the look at the next operator
RightOperand(E, expr_prec, op, lhs, rhs) ==
    LET p == SkipSpaces(E.text, rhs.s.pos)
        s1 == [rhs.s EXCEPT !.pos = p]
    IN  IF rhs.node = NULL THEN PR(NULL, exprlib_free(lhs, rhs.s))
        ELSE RightDone(E, expr_prec, op, lhs,
                 IF BindsRight(op, get_precedence(op),
                               get_precedence(CharAt(E.text, p)))
                 THEN parse_binary_rhs(E, get_precedence(op) + 1, rhs.node, s1)
                 ELSE PR(rhs.node, s1))

\* one turn of the while (1) of parse_binary_rhs
parse_binary_rhs(E, expr_prec, lhs, s) ==
    LET p == SkipSpaces(E.text, s.pos)
        op == CharAt(E.text, p)
    IN  IF get_precedence(op) < expr_prec THEN PR(lhs, [s EXCEPT !.pos = p])
        ELSE RightOperand(E, expr_prec, op, lhs,
                          parse_unary(E, [s EXCEPT !.pos = p + 1]))

\* lines 768-771: lhs = parse_unary(...)
FirstOperand(E, lhs) ==
    IF Failed(lhs) THEN PR(NULL, lhs.s)
    ELSE parse_binary_rhs(E, 0, lhs.node, lhs.s)

parse_internal(E, s) == FirstOperand(E, parse_unary(E, s))

\* exprlib_parse: [node, s]
exprlib_parse(text, ctx, consts, fuel, nullread) ==
    parse_internal([text |-> text, ctx |-> ctx, consts |-> consts, nullread |-> nullread],
                   [pos |-> 1, err |-> EXPRLIB_SUCCESS, fuel |-> fuel, next |-> 1,
                    heap |-> {}, bad |-> FALSE, trap |-> FALSE, abort |-> FALSE,
                    log |-> <<>>])

----------------------------------------------------------------------------
(* The evaluator.  V = [ctx, slots, fns, consts, nullread] is what one      *)
(* exprlib_evaluate call reads; s = [err, log, abort, trap] is what it     *)
(* writes: EXPRLIB_ERROR, the record of its steps, and whether the process *)
(* died in an assert() or a fault.  path is the node's place in the tree.  *)

RECURSIVE evaluate_node(_, _, _, _)
RECURSIVE EvalArgs(_, _, _, _, _, _)

Dead(s) == s.abort \/ s.trap

\* a variable lookup that reads the context's first variable whatever the name
EvalVariable_first(V, node, s) ==
    IF V.ctx = NULLCTX \/ V.ctx = <<>> THEN Ret(Zero, SetErr(s, EXPRLIB_ERROR_UNDEFINED_VARIABLE))
    ELSE Ret(V.slots[V.ctx[1].slot], s)

\* a variable lookup that searches the context before the constants
EvalVariable_context_first(V, node, s) ==
    LET name == node.variable_name
        FirstIn(tab) == CHOOSE i \in 1..Len(tab) :
                            tab[i].name = name /\ \A j \in 1..(i - 1) : tab[j].name # name
    IN  IF V.ctx # NULLCTX /\ \E i \in 1..Len(V.ctx) : V.ctx[i].name = name
        THEN Ret(V.slots[V.ctx[FirstIn(V.ctx)].slot], s)
        ELSE IF \E i \in 1..Len(V.consts) : V.consts[i].name = name
        THEN Ret(V.consts[FirstIn(V.consts)].value, s)
        ELSE Ret(Zero, SetErr(s, EXPRLIB_ERROR_UNDEFINED_VARIABLE))

\* lines 829-844
EvalVariable(V, node, s) ==
    LET name == node.variable_name
        FirstIn(tab) == CHOOSE i \in 1..Len(tab) :
                            tab[i].name = name /\ \A j \in 1..(i - 1) : tab[j].name # name
    IN  IF name = NULLSTR THEN Ret(Zero, [s EXCEPT !.trap = TRUE])
        ELSE IF \E i \in 1..Len(V.consts) : V.consts[i].name = name
        THEN Ret(V.consts[FirstIn(V.consts)].value, s)
        ELSE IF V.ctx = NULLCTX
        THEN (CASE V.nullread = "trap" -> Ret(Zero, [s EXCEPT !.trap = TRUE])
                [] V.nullread = "absent" ->
                      Ret(Zero, SetErr(s, EXPRLIB_ERROR_UNDEFINED_VARIABLE))
                [] OTHER -> Ret(Sym("indeterminate", <<>>), s))
        ELSE IF \E i \in 1..Len(V.ctx) : V.ctx[i].name = name
        THEN Ret(V.slots[V.ctx[FirstIn(V.ctx)].slot], s)
        ELSE Ret(Zero, SetErr(s, EXPRLIB_ERROR_UNDEFINED_VARIABLE))

\* lines 855-873
ApplyOperator(op, left_val, right_val, s) ==
    CASE op = "+" -> Ret(DAdd(left_val, right_val), s)
      [] op = "-" -> Ret(DSub(left_val, right_val), s)
      [] op = "*" -> Ret(DMul(left_val, right_val), s)
      [] op = "/" -> IF IsZero(right_val)
                     THEN Ret(Zero, SetErr(s, EXPRLIB_ERROR_DIVISION_BY_ZERO))
                     ELSE Ret(DDiv(left_val, right_val), s)
      [] op = "^" -> Ret(DPow(left_val, right_val), s)
      [] OTHER -> Ret(Zero, SetErr(s, EXPRLIB_ERROR_UNKNOWN))

\* lines 846-853: the operands, left first, each followed by the test of
\* EXPRLIB_ERROR
EvalOperator(V, node, path, s) ==
    LET l == evaluate_node(V, node.left, Append(path, 1), s)
        r == evaluate_node(V, node.right, Append(path, 2), l.s)
    IN  IF Dead(l.s) THEN l
        ELSE IF l.s.err # EXPRLIB_SUCCESS THEN Ret(Zero, l.s)
        ELSE IF Dead(r.s) THEN r
        ELSE IF r.s.err # EXPRLIB_SUCCESS THEN Ret(Zero, r.s)
        ELSE ApplyOperator(node.op, l.val, r.val, r.s)

\* lines 892-894: argv[i] = evaluate_node(args[i]) for every i, with no test
\* of EXPRLIB_ERROR in between; [argv, s]
EvalArgs(V, args, i, path, argv, s) ==
    IF i > Len(args) \/ Dead(s) THEN [argv |-> argv, s |-> s]
    ELSE LET a == evaluate_node(V, args[i], Append(path, i), s)
         IN  EvalArgs(V, args, i + 1, path, Append(argv, a.val), a.s)

\* a call that goes on to its arguments whatever their number
ArityOk_any(arity, argc) == TRUE

\* whether the call goes on to its arguments (line 885)
ArityOk(arity, argc) == arity = -1 \/ arity = argc

\* lines 876-897
EvalCall(V, node, path, s) ==
    LET fn == find_function(V.fns, node.name)
        argc == Len(node.args)
        a == EvalArgs(V, node.args, 1, path, <<>>, s)
    IN  IF fn = NOFN THEN Ret(Zero, SetErr(s, EXPRLIB_ERROR_UNKNOWN))
        ELSE IF ~ArityOk(fn.arity, argc) THEN Ret(Zero, SetErr(s, EXPRLIB_ERROR_SYNTAX))
        ELSE IF Dead(a.s) THEN Ret(Zero, a.s)
        ELSE CallNative(fn.fn, a.argv,
                        [a.s EXCEPT !.log =
                             Append(@, Event("native", path, 0, fn.name, fn.fn, a.argv))])

evaluate_node(V, node, path, s0) ==
    LET s == [s0 EXCEPT !.log = Append(@, Event("enter", path, 0, <<>>, "NULL", <<>>))]
    IN  IF node = NULL THEN Ret(Zero, SetErr(s, EXPRLIB_ERROR_UNKNOWN))
        ELSE CASE node.type = "NUMBER" -> Ret(node.number, s)
               [] node.type = "VARIABLE" -> EvalVariable(V, node, s)
               [] node.type = "OPERATOR" -> EvalOperator(V, node, path, s)
               [] node.type = "FUNCTION_CALL" -> EvalCall(V, node, path, s)
               [] OTHER -> Ret(Zero, SetErr(s, EXPRLIB_ERROR_UNKNOWN))

\* an exprlib_evaluate that starts from the code the previous call left
exprlib_evaluate_keeps_error(expr, ctx, slotvals, fns, consts, nullread) ==
    evaluate_node([ctx |-> ctx, slots |-> slotvals, fns |-> fns, consts |-> consts,
                   nullread |-> nullread],
                  expr, <<>>,
                  [err |-> EXPRLIB_ERROR, log |-> <<>>, abort |-> FALSE, trap |-> FALSE])

\* exprlib_evaluate: [val, s]
exprlib_evaluate(expr, ctx, slotvals, fns, consts, nullread) ==
    evaluate_node([ctx |-> ctx, slots |-> slotvals, fns |-> fns, consts |-> consts,
                   nullread |-> nullread],
                  expr, <<>>,
                  [err |-> EXPRLIB_SUCCESS, log |-> <<>>, abort |-> FALSE, trap |-> FALSE])

----------------------------------------------------------------------------
(* The host program and its calls into the library (main, lines 3-26, and  *)
(* the README's usage examples).                                           *)

SlotNames == {"x_value", "z_value"}
NoResult == Sym("unset", <<>>)
Call(op, name, arity, fn) == [op |-> op, name |-> name, arity |-> arity, fn |-> fn]
Step(op) == Call(op, NULLSTR, 0, "NULL")

\* the host's doubles as it initialises them: x_value = 2, z_value = 0
InitialSlots == [x_value |-> Q(2, 1), z_value |-> Zero]

\* the globals as the loader leaves them, the host before exprlib_init()
Boot ==
    /\ g_functions = <<>>
    /\ g_constants = <<>>
    /\ EXPRLIB_ERROR = EXPRLIB_SUCCESS
    /\ expression = <<>>
    /\ context = NULLCTX
    /\ slots = InitialSlots
    /\ ast = NULL
    /\ heap = {}
    /\ result = NoResult
    /\ evlog = <<>>
    /\ parselog = <<>>
    /\ retval = TRUE
    /\ call = Step("boot")
    /\ evals = 0
    /\ inits = 0
    /\ pc = "boot"

HoldsAst == pc \in {"parsed", "ready", "evaluated"}
\* the host's position after a call that changes what the AST evaluates to
Stale(p) == CASE p \in {"parsed", "evaluated"} -> "ready"
              [] OTHER -> p

\* exprlib_init(), at most limit times, while the host holds no AST
DoInit(limit) ==
    /\ pc \in {"boot", "idle"}
    /\ inits < limit
    /\ LET r == exprlib_init(g_constants)
       IN  /\ g_functions' = r.fns
           /\ g_constants' = r.consts
    /\ inits' = inits + 1
    /\ call' = Step("init")
    /\ pc' = "idle"
    /\ UNCHANGED <<EXPRLIB_ERROR, expression, context, slots, ast, heap, result,
                   evlog, parselog, retval, evals>>

\* exprlib_register_function(name, arity, fn), while the host holds no AST
DoRegister(names, arities, fnptrs, ooms) ==
    /\ pc \in {"boot", "idle"}
    /\ \E name \in names, arity \in arities, fn \in fnptrs, oom \in ooms :
          LET r == exprlib_register_function(g_functions, EXPRLIB_ERROR, name, arity,
                                             fn, oom)
          IN  /\ g_functions' = r.fns
              /\ EXPRLIB_ERROR' = r.err
              /\ retval' = r.ok
              /\ call' = Call("register", name, arity, fn)
    /\ pc' = pc
    /\ UNCHANGED <<g_constants, expression, context, slots, ast, heap, result, evlog,
                   parselog, evals, inits>>

\* what the host holds once exprlib_parse has returned r (or the process died)
ParseReturns(r) ==
    /\ ast' = r.node
    /\ heap' = r.s.heap
    /\ EXPRLIB_ERROR' = r.s.err
    /\ parselog' = r.s.log
    /\ pc' = IF r.s.trap THEN "aborted"
             ELSE IF r.node = NULL THEN "failed" ELSE "parsed"

\* what the host holds once exprlib_evaluate has returned r (or the process died)
EvaluateReturns(r) ==
    /\ result' = r.val
    /\ EXPRLIB_ERROR' = r.s.err
    /\ evlog' = r.s.log
    /\ pc' = IF Dead(r.s) THEN "aborted" ELSE "evaluated"

\* parsed_expr = exprlib_parse(expr, &context), after exprlib_init() and with
\* the host holding no AST
DoParse(texts, ctxs, fuels, reads) ==
    /\ pc = "idle"
    /\ inits > 0
    /\ \E text \in texts, ctx \in ctxs, fuel \in fuels, nullread \in reads :
          /\ expression' = text
          /\ context' = ctx
          /\ ParseReturns(exprlib_parse(text, ctx, g_constants, fuel, nullread))
    /\ result' = NoResult
    /\ evlog' = <<>>
    /\ call' = Step("parse")
    /\ evals' = 0
    /\ UNCHANGED <<g_functions, g_constants, slots, retval, inits>>

\* x_value = v: the host writes one of the doubles its context points to
HostSetsVariable(values) ==
    /\ HoldsAst
    /\ \E slot \in SlotNames, v \in values :
          /\ slots[slot] # v
          /\ slots' = [slots EXCEPT ![slot] = v]
    /\ call' = Step("assign")
    /\ pc' = Stale(pc)
    /\ UNCHANGED <<g_functions, g_constants, EXPRLIB_ERROR, expression, context, ast,
                   heap, result, evlog, parselog, retval, evals, inits>>

\* result = exprlib_evaluate(parsed_expr, &context), at most MaxEvals times
\* per AST
DoEvaluate(reads) ==
    /\ HoldsAst
    /\ evals < MaxEvals
    /\ evals' = evals + 1
    /\ \E nullread \in reads :
          EvaluateReturns(exprlib_evaluate(ast, context, slots, g_functions,
                                           g_constants, nullread))
    /\ call' = Step("evaluate")
    /\ UNCHANGED <<g_functions, g_constants, expression, context, slots, ast, heap,
                   parselog, retval, inits>>

\* free_expr(parsed_expr): the host releases the tree (exprlib_free(NULL) after
\* a failed parse does nothing) and leaves the scope; the doubles of its next
\* scope are initialised anew
DoFree ==
    /\ HoldsAst \/ pc = "failed"
    /\ heap' = exprlib_free(ast, [heap |-> heap, bad |-> FALSE]).heap
    /\ ast' = NULL
    /\ expression' = <<>>
    /\ context' = NULLCTX
    /\ result' = NoResult
    /\ evlog' = <<>>
    /\ parselog' = <<>>
    /\ call' = Step("free")
    /\ evals' = 0
    /\ slots' = InitialSlots
    /\ pc' = "idle"
    /\ UNCHANGED <<g_functions, g_constants, EXPRLIB_ERROR, retval, inits>>

----------------------------------------------------------------------------
(* Arithmetic texts: every expression of at most MaxOps binary operators    *)
(* over the literals 0, 2, 3, with parentheses round compound operands, and *)
(* the same text with a space round every character.                       *)

ArithAtoms == {<<"0">>, <<"2">>, <<"3">>}
PlainOps == {"+", "-", "*", "/"}

Parens(S) == S \cup {<<"(">> \o e \o <<")">> : e \in {x \in S : Len(x) > 1}}

RECURSIVE Exprs(_, _, _)
Exprs(atoms, ops, k) ==
    IF k = 0 THEN atoms
    ELSE Exprs(atoms, ops, k - 1) \cup
         UNION {{l \o <<op>> \o r : l \in Parens(Exprs(atoms, ops, i)),
                                    r \in Parens(Exprs(atoms, ops, k - 1 - i)),
                                    op \in ops} : i \in 0..(k - 1)}

RECURSIVE Spaced(_)
Spaced(text) ==
    IF text = <<>> THEN <<" ">> ELSE <<" ", Head(text)>> \o Spaced(Tail(text))

Strip(text) == SelectSeq(text, LAMBDA c : c # " ")

PlainTexts == Exprs(ArithAtoms, PlainOps, MaxOps)
\* a ^ b ^ c, and ^ beside one other operator
PowTexts ==
    {a \o <<"^">> \o b \o <<"^">> \o c : a \in ArithAtoms, b \in ArithAtoms, c \in ArithAtoms}
    \cup {a \o <<o1>> \o b \o <<o2>> \o c :
              a \in ArithAtoms, b \in ArithAtoms, c \in ArithAtoms,
              o1 \in PlainOps \cup {"^"}, o2 \in {"^"}}
    \cup {a \o <<"^">> \o b : a \in ArithAtoms, b \in ArithAtoms}
ArithTexts ==
    LET T == PlainTexts \cup PowTexts IN T \cup {Spaced(t) : t \in T}

InitArith == Boot

NextArith ==
    \/ DoInit(1)
    \/ DoParse(ArithTexts, {NULLCTX, <<>>}, {-1}, {"trap"})
    \/ DoEvaluate({"trap"})
    \/ DoFree

SpecArith == InitArith /\ [][NextArith]_vars

----------------------------------------------------------------------------
(* A session of the host of main.c and of the README's examples: it        *)
(* initialises the library, registers functions, binds x and z to its own  *)
(* doubles, parses, assigns, evaluates and frees.                           *)

CtxXZ == <<[name |-> S_x, slot |-> "x_value"], [name |-> S_z, slot |-> "z_value"]>>

T_x_pow_2 == <<"x", " ", "^", " ", "2">>
T_x_div_z == <<"x", " ", "/", " ", "z">>
T_f_x_z == <<"f", "(", "x", ",", " ", "z", ")">>
T_max_x == <<"m", "a", "x", "(", "x", ")">>
T_max_10_sqrt_25_plus_1 ==
    <<"m", "a", "x", "(", "1", "0", ",", " ", "s", "q", "r", "t", "(", "2", "5", ")",
      ")", " ", "+", " ", "1">>
SessionTexts == {T_x_pow_2, T_x_div_z, T_f_x_z, T_max_x, T_max_10_sqrt_25_plus_1}

SessionValues == {Zero, Q(2, 1), Q(10, 1)}
RegisterNames == {S_f, S_max, S_empty, NULLSTR}
RegisterArities == {-2, -1, 2}
RegisterFns == {"NULL", "user_fn_max"}
RegisterOoms == {"none", "realloc"}

Init == Boot

Next ==
    \/ DoInit(MaxInits)
    \/ DoRegister(RegisterNames, RegisterArities, RegisterFns, RegisterOoms)
    \/ DoParse(SessionTexts, {NULLCTX, CtxXZ}, {-1}, NullReads)
    \/ HostSetsVariable(SessionValues)
    \/ DoEvaluate(NullReads)
    \/ DoFree

Spec == Init /\ [][Next]_vars

----------------------------------------------------------------------------
(* Texts with variables: every chain of at most MaxOps operators + and /    *)
(* over the literals 0 and 2, the variable z of the host's context and the  *)
(* name a, which nothing defines; and every division with a parenthesised    *)
(* dividend or divisor over the same.                                        *)

VarAtoms == {<<"0">>, <<"2">>, S_z, S_a}
VarOps == {"+", "/"}

RECURSIVE Chains(_, _, _)
Chains(atoms, ops, k) ==
    IF k = 0 THEN atoms
    ELSE Chains(atoms, ops, k - 1)
         \cup {c \o <<op>> \o a : c \in Chains(atoms, ops, k - 1), op \in ops, a \in atoms}

Grouped == {<<"(">> \o l \o <<op>> \o r \o <<")">> : l \in VarAtoms, r \in VarAtoms, op \in VarOps}
GroupedDivisions ==
    {a \o <<"/">> \o g : a \in VarAtoms, g \in Grouped}
    \cup {g \o <<"/">> \o a : a \in VarAtoms, g \in Grouped}

VarTexts == Chains(VarAtoms, VarOps, MaxOps) \cup GroupedDivisions
VarValues == {Zero, Q(2, 1)}

InitVars == Boot

NextVars ==
    \/ DoInit(1)
    \/ DoParse(VarTexts, {<<>>, CtxXZ}, {-1}, {"trap"})
    \/ HostSetsVariable(VarValues)
    \/ DoEvaluate({"trap"})
    \/ DoFree

SpecVars == InitVars /\ [][NextVars]_vars

----------------------------------------------------------------------------
(* Texts with calls: sin (arity 1), nCr (arity 2) and max (variadic) on at  *)
(* most MaxArgs arguments, each the literal 2 or the variable x; such a     *)
(* call as an argument of another; and such a call beside 2/z or 2.         *)

CallAtoms == {<<"2">>, S_x}
CallNames == {S_sin, S_nCr, S_max}

ArgLists(items, k) == UNION {[1..n -> items] : n \in 0..k}

RECURSIVE JoinArgs(_)
JoinArgs(args) ==
    IF args = <<>> THEN <<>>
    ELSE IF Len(args) = 1 THEN args[1]
    ELSE args[1] \o <<",">> \o JoinArgs(Tail(args))

CallOf(name, args) == name \o <<"(">> \o JoinArgs(args) \o <<")">>

FlatCalls == {CallOf(n, a) : n \in CallNames, a \in ArgLists(CallAtoms, MaxArgs)}
NestedCalls ==
    {CallOf(n, <<c>>) : n \in CallNames, c \in FlatCalls}
    \cup {CallOf(n, <<c, a>>) : n \in CallNames, c \in FlatCalls, a \in CallAtoms}
    \cup {CallOf(n, <<a, c>>) : n \in CallNames, c \in FlatCalls, a \in CallAtoms}
CallTexts ==
    FlatCalls \cup NestedCalls
    \cup {<<"2", "/", "z", "+">> \o c : c \in FlatCalls}
    \cup {c \o <<"+", "2">> : c \in FlatCalls}

InitCall == Boot

NextCall ==
    \/ DoInit(1)
    \/ DoParse(CallTexts, {CtxXZ}, {-1}, {"trap"})
    \/ HostSetsVariable(VarValues)
    \/ DoEvaluate({"trap"})
    \/ DoFree

SpecCall == InitCall /\ [][NextCall]_vars

----------------------------------------------------------------------------
(* The standard reading of an expression text without spaces: + and - bind *)
(* loosest and group left to right, then * and /, then ^, which groups     *)
(* right to left.  env is a sequence of [name, value].                     *)

Undefined == Sym("undefined", <<>>)

DepthAt(t, i) ==
    Cardinality({j \in 1..(i - 1) : t[j] = "("}) - Cardinality({j \in 1..(i - 1) : t[j] = ")"})
TopOps(t, ops) == {i \in 1..Len(t) : t[i] \in ops /\ DepthAt(t, i) = 0}
Last(S) == CHOOSE i \in S : \A j \in S : j <= i
First(S) == CHOOSE i \in S : \A j \in S : i <= j

StdApply(op, l, r) ==
    IF l = Undefined \/ r = Undefined THEN Undefined
    ELSE CASE op = "+" -> DAdd(l, r)
           [] op = "-" -> DSub(l, r)
           [] op = "*" -> DMul(l, r)
           [] op = "/" -> IF IsZero(r) THEN Undefined ELSE DDiv(l, r)
           [] op = "^" -> DPow(l, r)

RECURSIVE Decimal(_, _, _)
Decimal(t, i, acc) ==
    IF i > Len(t) THEN Q(acc, 1) ELSE Decimal(t, i + 1, 10 * acc + DigitVal(t[i]))

StdAtom(t, env) ==
    IF \A i \in 1..Len(t) : IsDigit(t[i]) THEN Decimal(t, 1, 0)
    ELSE IF \E i \in 1..Len(env) : env[i].name = t
    THEN env[CHOOSE i \in 1..Len(env) : env[i].name = t].value
    ELSE Undefined

RECURSIVE StdValue(_, _)
StdSplit(t, i, env) ==
    StdApply(t[i], StdValue(SubSeq(t, 1, i - 1), env), StdValue(SubSeq(t, i + 1, Len(t)), env))
StdValue(t, env) ==
    IF TopOps(t, {"+", "-"}) # {} THEN StdSplit(t, Last(TopOps(t, {"+", "-"})), env)
    ELSE IF TopOps(t, {"*", "/"}) # {} THEN StdSplit(t, Last(TopOps(t, {"*", "/"})), env)
    ELSE IF TopOps(t, {"^"}) # {} THEN StdSplit(t, First(TopOps(t, {"^"})), env)
    ELSE IF t[1] = "(" THEN StdValue(SubSeq(t, 2, Len(t) - 1), env)
    ELSE StdAtom(t, env)

----------------------------------------------------------------------------
(* Claims *)

IsPowChain(t) ==
    /\ Len(t) = 5
    /\ t[2] = "^" /\ t[4] = "^"
    /\ IsDigit(t[1]) /\ IsDigit(t[3]) /\ IsDigit(t[5])

\* C1: ^ is right-associative: evaluating the parse of "a ^ b ^ c" gives
\* a ^ (b ^ c) for all literals a, b, c ("2 ^ 3 ^ 2" gives 512).
C1_PowerGroupsRightToLeft ==
    (pc = "evaluated" /\ IsPowChain(Strip(expression)))
        => result = StdValue(Strip(expression), <<>>)

IsPlainText(text) == Strip(text) \in PlainTexts

\* C2: a variable-free text of non-negative integer literals, parentheses and
\* + - * / whose standard reading divides by no zero parses, and evaluates
\* without error to the value of the standard reading.
C2_StandardReading ==
    (expression # <<>> /\ IsPlainText(expression)
         /\ StdValue(Strip(expression), <<>>) # Undefined)
        => /\ pc \in {"parsed", "evaluated"}
           /\ ast # NULL
           /\ pc = "parsed" => EXPRLIB_ERROR = EXPRLIB_SUCCESS
           /\ pc = "evaluated" =>
                  /\ EXPRLIB_ERROR = EXPRLIB_SUCCESS
                  /\ result = StdValue(Strip(expression), <<>>)

\* "2+3*2" has parsed and evaluated to 8 (not to (2+3)*2 = 10)
C2_Witness ==
    /\ pc = "evaluated"
    /\ expression = <<"2", "+", "3", "*", "2">>
    /\ result = Q(8, 1)

\* what the context's variables hold: a sequence of [name, value]
Bound(ctx, slotvals) ==
    [i \in 1..Len(ctx) |-> [name |-> ctx[i].name, value |-> slotvals[ctx[i].slot]]]

C5_Reading == StdValue(Strip(expression), Bound(context, slots))

\* C5: exprlib_evaluate leaves the AST, the live nodes, the context and the
\* values it points to as they were, and whenever an evaluation of "x ^ 2"
\* or "x / z" has returned, the first on an AST or a later one, the result is
\* the value for what x and z hold now (DivisionByZero when z holds 0).
C5_EvaluateReadsCurrentValues ==
    /\ [](  (pc = "evaluated" /\ context = CtxXZ /\ expression \in {T_x_pow_2, T_x_div_z})
            => IF C5_Reading = Undefined
               THEN EXPRLIB_ERROR = EXPRLIB_ERROR_DIVISION_BY_ZERO
               ELSE EXPRLIB_ERROR = EXPRLIB_SUCCESS /\ result = C5_Reading )
    /\ [][ call'.op = "evaluate"
           => /\ ast' = ast /\ heap' = heap
              /\ context' = context /\ slots' = slots ]_vars

\* "x ^ 2" parsed with x = 2, evaluated to 4, x set to 10, and the same AST
\* evaluated again to 100
C5_Witness ==
    /\ pc = "evaluated" /\ evals = 2
    /\ context = CtxXZ /\ expression = T_x_pow_2
    /\ slots["x_value"] = Q(10, 1)
    /\ result = Q(100, 1)

RegistryNamesUnique ==
    \A i, j \in 1..Len(g_functions) :
        g_functions[i].name = g_functions[j].name => i = j

NamesOf(fns) == {fns[i].name : i \in 1..Len(fns)}

\* C8: the names of the registry are unique, and a registration that returns
\* false leaves the registry with the same number of entries and with
\* find_function of every name giving the same arity and callable as before.
C8_RegistryUniqueAndFailureFrames ==
    /\ []RegistryNamesUnique
    /\ [][ (call'.op = "register" /\ ~retval')
           => /\ Len(g_functions') = Len(g_functions)
              /\ \A n \in NamesOf(g_functions) \cup RegisterNames :
                     find_function(g_functions', n) = find_function(g_functions, n) ]_vars

\* f registered as variadic, then f again with arity 2: refused, and f is
\* still the variadic one
C8_Witness ==
    /\ call = Call("register", S_f, 2, "user_fn_max")
    /\ ~retval
    /\ EXPRLIB_ERROR = EXPRLIB_ERROR_DUPLICATE_FUNCTION
    /\ find_function(g_functions, S_f).arity = -1

\* a registration step whose name is non-empty and already in the registry
\* and whose callable is present
IsDuplicateRegistration ==
    /\ call'.op = "register"
    /\ call'.name \notin {NULLSTR, S_empty}
    /\ call'.fn # "NULL"
    /\ find_function(g_functions, call'.name) # NOFN

\* C9: a registration with a non-empty name already in the registry and a
\* present callable fails with DuplicateFunction for every arity, an arity
\* below -1 included.
C9_DuplicateForEveryArity ==
    [][ IsDuplicateRegistration
        => ~retval' /\ EXPRLIB_ERROR' = EXPRLIB_ERROR_DUPLICATE_FUNCTION ]_vars

\* C9, amended: such a registration fails with DuplicateFunction for every
\* arity >= -1 and with InvalidArgument for every arity below -1; either way
\* the registry keeps its entries.
C9_DuplicateUnlessArityInvalid ==
    [][ IsDuplicateRegistration
        => /\ ~retval'
           /\ g_functions' = g_functions
           /\ EXPRLIB_ERROR' = IF call'.arity < -1
                               THEN EXPRLIB_ERROR_INVALID_ARGUMENT
                               ELSE EXPRLIB_ERROR_DUPLICATE_FUNCTION ]_vars

\* "max" is registered and is registered again with arity -2: InvalidArgument
C9_Witness ==
    /\ call = Call("register", S_max, -2, "user_fn_max")
    /\ find_function(g_functions, S_max) # NOFN
    /\ ~retval
    /\ EXPRLIB_ERROR = EXPRLIB_ERROR_INVALID_ARGUMENT

UserMaxDispatched ==
    \E i \in 1..Len(evlog) :
        /\ evlog[i].ev = "native"
        /\ evlog[i].fn = "user_fn_max"
        /\ evlog[i].args = <<Q(10, 1), Q(5, 1)>>

\* C10: after exprlib_init(), exprlib_register_function("max", 2, fn) returns
\* true and leaves fn as what "max" names, and an evaluation of
\* "max(10, sqrt(25)) + 1" after it calls fn and yields 11.
C10_ReadmeUserMax ==
    /\ (inits > 0 /\ call = Call("register", S_max, 2, "user_fn_max"))
           => retval /\ find_function(g_functions, S_max).fn = "user_fn_max"
    /\ (pc = "evaluated" /\ expression = T_max_10_sqrt_25_plus_1
            /\ find_function(g_functions, S_max).fn = "user_fn_max")
           => result = Q(11, 1) /\ UserMaxDispatched

IsVarFree(t) == \A i \in 1..Len(t) : ~IsAlpha(t[i])
IdentsOf(t) == {<<t[i]>> : i \in {j \in 1..Len(t) : IsAlpha(t[j])}}

\* the text's last top-level operator is a division
TopDivision(t) ==
    /\ TopOps(t, {"+", "-"}) = {}
    /\ TopOps(t, {"*", "/"}) # {}
    /\ t[Last(TopOps(t, {"*", "/"}))] = "/"
Dividend(t) == SubSeq(t, 1, Last(TopOps(t, {"*", "/"})) - 1)
Divisor(t) == SubSeq(t, Last(TopOps(t, {"*", "/"})) + 1, Len(t))

\* the host's text is a division under a present context that defines its
\* names, and the dividend has a value
IsDivision ==
    /\ expression # <<>>
    /\ context # NULLCTX
    /\ TopDivision(Strip(expression))
    /\ IdentsOf(Strip(expression)) \subseteq NamesOf(context) \cup NamesOf(g_constants)
    /\ StdValue(Dividend(Strip(expression)), Bound(context, slots)) # Undefined

DivisorNow == StdValue(Divisor(Strip(expression)), Bound(context, slots))

ParseFailedWith(e) == pc = "failed" /\ ast = NULL /\ EXPRLIB_ERROR = e

HasUndefined ==
    /\ expression # <<>>
    /\ context # NULLCTX
    /\ ~(IdentsOf(Strip(expression)) \subseteq NamesOf(context) \cup NamesOf(g_constants))

LookupFailed ==
    \E i \in 1..Len(parselog) :
        parselog[i].ev = "lookup" /\ parselog[i].args = <<"false">>

\* C4: for every text that holds a bare identifier naming neither a constant
\* nor a variable of the context, the empty context included, exprlib_parse
\* returns no AST and sets UndefinedVariable.
C4_UndefinedAlwaysReported ==
    HasUndefined => ParseFailedWith(EXPRLIB_ERROR_UNDEFINED_VARIABLE)

\* C4, amended: under a present context, such a text never parses; the parse
\* returns no AST with UndefinedVariable whenever it gets as far as looking the
\* name up, which it always does when no division stands in the text, and
\* with DivisionByZero when a folded division by 0 comes first ("2/0+a").
C4_UndefinedReportedWhenReached ==
    /\ (context # NULLCTX /\ LookupFailed)
           => ParseFailedWith(EXPRLIB_ERROR_UNDEFINED_VARIABLE)
    /\ (HasUndefined /\ \A i \in 1..Len(expression) : expression[i] # "/")
           => ParseFailedWith(EXPRLIB_ERROR_UNDEFINED_VARIABLE)
    /\ HasUndefined
           => /\ pc = "failed" /\ ast = NULL
              /\ EXPRLIB_ERROR \in {EXPRLIB_ERROR_UNDEFINED_VARIABLE,
                                    EXPRLIB_ERROR_DIVISION_BY_ZERO}
              /\ EXPRLIB_ERROR = EXPRLIB_ERROR_UNDEFINED_VARIABLE <=> LookupFailed

\* "2+a" under the empty context: no AST, UndefinedVariable
C4_Witness ==
    /\ expression = <<"2", "+", "a">>
    /\ context = <<>>
    /\ ParseFailedWith(EXPRLIB_ERROR_UNDEFINED_VARIABLE)
    /\ LookupFailed

\* the calls of a tree: [path, name, argc], path as evaluate_node logs it
RECURSIVE CallSites(_, _)
CallSites(node, path) ==
    CASE node.type = "OPERATOR" ->
             CallSites(node.left, Append(path, 1)) \cup CallSites(node.right, Append(path, 2))
      [] node.type = "FUNCTION_CALL" ->
             {[path |-> path, name |-> node.name, argc |-> Len(node.args)]}
             \cup UNION {CallSites(node.args[i], Append(path, i)) : i \in 1..Len(node.args)}
      [] OTHER -> {}

\* a call of a registered function of fixed arity with another number of
\* arguments
Mismatched(site) ==
    /\ find_function(g_functions, site.name) # NOFN
    /\ find_function(g_functions, site.name).arity # -1
    /\ find_function(g_functions, site.name).arity # site.argc

Entered(p) == \E i \in 1..Len(evlog) : evlog[i].ev = "enter" /\ evlog[i].path = p
NativeAt(p) == \E i \in 1..Len(evlog) : evlog[i].ev = "native" /\ evlog[i].path = p
ArgsEntered(p) ==
    \E i \in 1..Len(evlog) :
        /\ evlog[i].ev = "enter"
        /\ Len(evlog[i].path) = Len(p) + 1
        /\ SubSeq(evlog[i].path, 1, Len(p)) = p
\* the evaluation of the node at p set SyntaxError as its first deed
SyntaxSetAt(p) ==
    \E i \in 1..(Len(evlog) - 1) :
        /\ evlog[i].ev = "enter" /\ evlog[i].path = p
        /\ evlog[i + 1].ev = "error" /\ evlog[i + 1].code = EXPRLIB_ERROR_SYNTAX

\* C6: when the AST holds a call of a fixed-arity function with a number of
\* arguments other than its arity, exprlib_parse has succeeded and
\* exprlib_evaluate fails with SyntaxError, the native function not invoked
\* and the call's arguments not evaluated.
C6_MismatchIsSyntaxError ==
    \A site \in CallSites(ast, <<>>) :
        Mismatched(site)
        => /\ pc \notin {"failed", "aborted"}
           /\ pc = "evaluated" =>
                  /\ EXPRLIB_ERROR = EXPRLIB_ERROR_SYNTAX
                  /\ ~NativeAt(site.path)
                  /\ ~ArgsEntered(site.path)

\* texts that are one call of sin or nCr with a wrong number of plain arguments
MismatchTexts ==
    {CallOf(S_sin, a) : a \in {b \in ArgLists(CallAtoms, MaxArgs) : Len(b) # 1}}
    \cup {CallOf(S_nCr, a) : a \in {b \in ArgLists(CallAtoms, MaxArgs) : Len(b) # 2}}

\* C6, amended: such a call parses; when the evaluation reaches it, it sets
\* SyntaxError at once, invokes no native function for it and evaluates none
\* of its arguments, and the evaluation returns with an error; that error is
\* SyntaxError, and the result 0, when the call is the whole expression, but
\* an earlier failure keeps the evaluation from reaching the call
\* ("2/z+sin(2,2)" with z = 0: DivisionByZero) and a later one replaces
\* SyntaxError ("nCr(sin(2,2),2)": InvalidArgument).
C6_MismatchWhereReached ==
    /\ expression \in MismatchTexts
           => /\ pc \notin {"failed", "aborted"}
              /\ ast.type = "FUNCTION_CALL"
              /\ Mismatched([path |-> <<>>, name |-> ast.name, argc |-> Len(ast.args)])
              /\ pc = "evaluated" =>
                     /\ EXPRLIB_ERROR = EXPRLIB_ERROR_SYNTAX
                     /\ result = Zero
    /\ \A site \in CallSites(ast, <<>>) :
           (Mismatched(site) /\ pc = "evaluated" /\ Entered(site.path))
           => /\ SyntaxSetAt(site.path)
              /\ ~NativeAt(site.path)
              /\ ~ArgsEntered(site.path)
              /\ EXPRLIB_ERROR # EXPRLIB_SUCCESS

\* "sin(2,x)" has parsed and its evaluation has returned 0 with SyntaxError
C6_Witness ==
    /\ expression = CallOf(S_sin, <<<<"2">>, S_x>>)
    /\ pc = "evaluated"
    /\ EXPRLIB_ERROR = EXPRLIB_ERROR_SYNTAX
    /\ ~NativeAt(<<>>)
    /\ result = Zero

\* texts that are one call of max on n >= 1 plain arguments
VariadicTexts ==
    {CallOf(S_max, a) : a \in {b \in ArgLists(CallAtoms, MaxArgs) : Len(b) >= 1}}

\* C7: a call of a variadic function with one argument or more parses and
\* evaluates by invoking the native function on its arguments; with no
\* argument, exprlib_evaluate returns, with a last error other than Success
\* and without invoking the native function.
C7_VariadicNeedsAnArgument ==
    /\ expression \in VariadicTexts
           => /\ pc \notin {"failed", "aborted"}
              /\ pc = "evaluated" => EXPRLIB_ERROR = EXPRLIB_SUCCESS /\ NativeAt(<<>>)
    /\ expression = CallOf(S_max, <<>>)
           => /\ pc # "aborted"
              /\ pc = "evaluated" => EXPRLIB_ERROR # EXPRLIB_SUCCESS /\ ~NativeAt(<<>>)

----------------------------------------------------------------------------
(* exprlib_init, repeated.                                                   *)

\* C11: when exprlib_init() has returned, whatever registrations and earlier
\* exprlib_init() calls came before it, the registry holds exactly the built-in
\* functions and the constant table exactly the built-in constants, each name
\* once (so that the tables after a second call are those after the first).
C11_InitResetsBothTables ==
    call.op = "init"
        => /\ g_functions = exprlib_register_builtins(<<>>, <<>>).fns
           /\ g_constants = exprlib_register_builtins(<<>>, <<>>).consts
           /\ \A i, j \in 1..Len(g_constants) :
                  g_constants[i].name = g_constants[j].name => i = j

----------------------------------------------------------------------------
(* The combinatorial natives and failing operands: factorial, nCr and nPr   *)
(* on the host's doubles, which the host sets to small integers, and calls  *)
(* and sums whose operands fail.                                            *)

MaxN == 4    \* the host's doubles range over -1..MaxN

S_factorial == <<"f", "a", "c", "t", "o", "r", "i", "a", "l">>
S_nPr == <<"n", "P", "r">>
T_one_div_z == <<"1", "/", "z">>
T_factorial_minus_1 == CallOf(S_factorial, <<<<"-", "1">>>>)
T_nCr_5_2_plus_nPr_4_2 ==
    CallOf(S_nCr, <<<<"5">>, <<"2">>>>) \o <<" ", "+", " ">> \o CallOf(S_nPr, <<<<"4">>, <<"2">>>>)

CombTexts ==
    {CallOf(S_factorial, <<S_x>>), CallOf(S_nCr, <<S_x, S_z>>), CallOf(S_nPr, <<S_x, S_z>>),
     T_nCr_5_2_plus_nPr_4_2, T_factorial_minus_1,
     CallOf(S_max, <<T_one_div_z, T_factorial_minus_1>>),
     CallOf(S_max, <<T_one_div_z, CallOf(S_factorial, <<S_x>>)>>),
     CallOf(S_max, <<CallOf(S_factorial, <<S_x>>), T_one_div_z>>),
     T_one_div_z \o <<"+">> \o CallOf(S_factorial, <<S_x>>)}

CombValues == {Q(n, 1) : n \in -1..MaxN}

NextComb ==
    \/ DoInit(1)
    \/ DoParse(CombTexts, {CtxXZ}, {-1}, {"trap"})
    \/ HostSetsVariable(CombValues)
    \/ DoEvaluate({"trap"})
    \/ DoFree

SpecComb == Boot /\ [][NextComb]_vars

\* the code of the first EXPRLIB_ERROR = e of a call's log
HasError(log) == \E i \in 1..Len(log) : log[i].ev = "error"
FirstError(log) ==
    log[CHOOSE i \in 1..Len(log) :
            log[i].ev = "error" /\ \A j \in 1..(i - 1) : log[j].ev # "error"].code

\* C12: when exprlib_evaluate or exprlib_parse has returned after setting the
\* last error to a kind other than Success, the last error is the kind set
\* first during that call.
C12_FirstFailureWins ==
    /\ pc = "evaluated" /\ HasError(evlog) => EXPRLIB_ERROR = FirstError(evlog)
    /\ call.op = "parse" /\ pc # "aborted" /\ HasError(parselog)
           => EXPRLIB_ERROR = FirstError(parselog)

----------------------------------------------------------------------------
(* Allocation failures: exprlib_parse with malloc, strdup and realloc       *)
(* failing from some allocation on, after registrations that may have       *)
(* failed.                                                                  *)

MaxFuel == 5    \* allocations that succeed before the first failing one

AllocFuels == -1..MaxFuel
AllocTexts ==
    {<<"x", "+", "2">>, <<"2", "+", "x">>, <<"2", "+", "3">>, <<"-", "x">>,
     <<"(", "x", ")", "*", "z">>, <<"x", "+", "2", "*", "z">>,
     CallOf(S_max, <<S_x, <<"2">>>>), <<"1", "/", "0">>, <<"x", "+">>, <<"(", "x">>,
     <<"2", "/", "z">>, <<"a">>}

NextAlloc ==
    \/ DoInit(1)
    \/ DoRegister({S_max, S_f}, {2}, {"user_fn_max"}, {"none"})
    \/ DoParse(AllocTexts, {CtxXZ}, AllocFuels, {"trap"})
    \/ HostSetsVariable(VarValues)
    \/ DoEvaluate({"trap"})
    \/ DoFree

SpecAlloc == Boot /\ [][NextAlloc]_vars

\* C14: every AST node allocated during exprlib_parse is freed exactly once and
\* none is leaked: when exprlib_parse has returned no AST, no node is live;
\* when it has returned an AST, the live nodes are exactly those of the tree,
\* and after the host's exprlib_free none is live; no node is freed twice.
C14_NodesFreedExactlyOnce ==
    /\ pc = "failed" => heap = {}
    /\ HoldsAst => heap = NodeIds(ast)
    /\ call.op = "free" => heap = {}
    /\ call.op = "parse" =>
           \A fuel \in AllocFuels :
               ~exprlib_parse(expression, context, g_constants, fuel, "trap").s.bad

\* C13: the last error never carries over from one top-level call to the next:
\* whatever the code was before, when exprlib_parse has returned, it has
\* returned an AST exactly when the code is Success, and when exprlib_evaluate
\* has returned without any step of it setting the code, the code is Success.
C13_NoCarryOver ==
    /\ call.op = "parse" /\ pc # "aborted"
           => (ast # NULL <=> EXPRLIB_ERROR = EXPRLIB_SUCCESS)
    /\ call.op = "evaluate" /\ pc = "evaluated" /\ ~HasError(evlog)
           => EXPRLIB_ERROR = EXPRLIB_SUCCESS

\* after a registration that failed and a first evaluation of "2/z", the host
\* has set z to 2 and the second evaluation has returned 1 with Success
C13_Witness ==
    /\ retval = FALSE
    /\ call.op = "evaluate"
    /\ evals = 2
    /\ expression = <<"2", "/", "z">>
    /\ slots.z_value = Q(2, 1)
    /\ ~HasError(evlog)
    /\ result = One
    /\ EXPRLIB_ERROR = EXPRLIB_SUCCESS

----------------------------------------------------------------------------
(* Contexts whose names collide: a variable named like a built-in constant, *)
(* and a name bound twice.                                                  *)

CtxShadow ==
    <<[name |-> S_pi, slot |-> "x_value"], [name |-> S_x, slot |-> "x_value"],
      [name |-> S_x, slot |-> "z_value"]>>
CtxShadowRev ==
    <<[name |-> S_x, slot |-> "z_value"], [name |-> S_x, slot |-> "x_value"],
      [name |-> S_e, slot |-> "z_value"]>>
ShadowTexts == {S_pi, S_e, S_x, S_x \o <<"+">> \o S_x}

NextShadow ==
    \/ DoInit(1)
    \/ DoParse(ShadowTexts, {CtxShadow, CtxShadowRev}, {-1}, {"trap"})
    \/ HostSetsVariable(SessionValues)
    \/ DoEvaluate({"trap"})
    \/ DoFree

SpecShadow == Boot /\ [][NextShadow]_vars

IsConstant(name) == \E i \in 1..Len(g_constants) : g_constants[i].name = name
ConstantValue(name) ==
    g_constants[CHOOSE i \in 1..Len(g_constants) : g_constants[i].name = name].value
\* the double the first entry of the context with that name points to
FirstBound(name) ==
    slots[context[CHOOSE i \in 1..Len(context) :
                      context[i].name = name
                      /\ \A j \in 1..(i - 1) : context[j].name # name].slot]

\* C15: when the expression is an identifier that is a registered constant,
\* whether or not the context holds a variable of that name, exprlib_parse
\* accepts it and exprlib_evaluate returns the constant's value with Success;
\* when it is a name that is no constant and the context binds it, the value
\* returned is that of the first entry of the context with that name.
C15_ConstantsShadowFirstMatchWins ==
    \A name \in {S_pi, S_e, S_x} :
        expression = name
        => /\ pc \notin {"failed", "aborted"}
           /\ pc = "evaluated" =>
                  /\ EXPRLIB_ERROR = EXPRLIB_SUCCESS
                  /\ result = IF IsConstant(name) THEN ConstantValue(name)
                              ELSE FirstBound(name)

\* "pi" has been evaluated to M_PI under a context whose variable pi points to
\* a double holding 10
C15_Witness ==
    /\ expression = S_pi
    /\ context = CtxShadow
    /\ slots.x_value = Q(10, 1)
    /\ pc = "evaluated"
    /\ result = M_PI

----------------------------------------------------------------------------
(* Tokens: complete expressions followed by further text, unary minus on    *)
(* literals, and literals that start with the decimal point.                *)

TokComplete ==
    {<<"2">>, S_x, <<"2", "+", "3">>, <<"(", "2", ")">>, <<"-", "2">>, <<"-", "x">>,
     <<"2", ".", "5">>}
TokDotted == {<<".", "5">>, <<".", "5", "x">>, <<" ", ".", "x">>, <<"-", ".", "5">>}
TokTrailing == {<<" ", "3">>, <<" ", ")">>, <<" ", "$", " ", "3">>}
TokOperators == {<<"*", "-", "3">>, <<"+", ".", "5">>, <<"+", ".", "5", "x">>, <<"+", "x">>}
TokTexts ==
    {a \o b : a \in TokComplete \cup TokDotted,
              b \in {<<>>} \cup TokTrailing \cup TokOperators}

NextTok ==
    \/ DoInit(1)
    \/ DoParse(TokTexts, {CtxXZ}, {-1}, {"trap"})
    \/ HostSetsVariable(VarValues)
    \/ DoEvaluate({"trap"})
    \/ DoFree

SpecTok == Boot /\ [][NextTok]_vars

\* C16: when the text is a complete expression followed by an extra token or
\* an unexpected character ("2 3", "2 )", "2 $ 3"), exprlib_parse returns no
\* AST and sets SyntaxError.
C16_TrailingTextIsSyntaxError ==
    \A a \in TokComplete, b \in TokTrailing :
        expression = a \o b => pc = "failed" /\ EXPRLIB_ERROR = EXPRLIB_ERROR_SYNTAX

\* no Operator node of the tree has two Number children
RECURSIVE FullyFolded(_)
FullyFolded(node) ==
    CASE node.type = "OPERATOR" ->
             /\ ~(node.left.type = "NUMBER" /\ node.right.type = "NUMBER")
             /\ FullyFolded(node.left)
             /\ FullyFolded(node.right)
      [] node.type = "FUNCTION_CALL" ->
             \A i \in 1..Len(node.args) : FullyFolded(node.args[i])
      [] OTHER -> TRUE

\* C19: in every AST that exprlib_parse has returned, no Operator node has two
\* Number children, the 0 - operand node of a unary minus on a literal
\* included.
C19_FoldingIsComplete == HoldsAst => FullyFolded(ast)

\* the text starts, after spaces, with the decimal point
StartsWithDot(text) == CharAt(text, SkipSpaces(text, 1)) = "."

\* C20: when the text starts with '.', exprlib_parse returns no AST and sets
\* SyntaxError; and when parse_number, called at the start of the text,
\* reports that it found no number, it has moved the cursor past leading
\* spaces only.
C20_LiteralNeedsIntegerPart ==
    call.op = "parse" =>
        /\ StartsWithDot(expression)
               => pc = "failed" /\ EXPRLIB_ERROR = EXPRLIB_ERROR_SYNTAX
        /\ ~parse_number(expression, 1).found
               => parse_number(expression, 1).pos = SkipSpaces(expression, 1)

\* C18: during exprlib_evaluate, once a step has set a failure, no operand or
\* argument is entered and no native function is invoked any more: the node
\* whose child failed does nothing further, and so does every node above it.
C18_NothingAfterAFailure ==
    pc = "evaluated" =>
        \A k, m \in 1..Len(evlog) :
            k < m /\ evlog[k].ev = "error" => evlog[m].ev \notin {"enter", "native"}

\* n! for a natural n
RECURSIVE Fact(_)
Fact(n) == IF n = 0 THEN 1 ELSE n * Fact(n - 1)

\* the outcome the claim gives for arguments that are accepted (value v) or
\* rejected
Combinatorial(rejected, v) ==
    IF rejected THEN EXPRLIB_ERROR = EXPRLIB_ERROR_INVALID_ARGUMENT
    ELSE EXPRLIB_ERROR = EXPRLIB_SUCCESS /\ result = Q(v, 1)

\* C17: with the integers n and r in x and z, the evaluation of factorial(x)
\* sets InvalidArgument exactly when n < 0, that of nCr(x,z) and of nPr(x,z)
\* exactly when n < 0, r < 0 or r > n; otherwise it returns n!, n!/(r!(n-r)!)
\* and n!/(n-r)! with Success; "nCr(5,2) + nPr(4,2)" evaluates to 22 and
\* "factorial(-1)" sets InvalidArgument.
C17_CombinatorialNatives ==
    pc = "evaluated" =>
        LET n == slots.x_value.n
            r == slots.z_value.n
            rejected == n < 0 \/ r < 0 \/ r > n
        IN  /\ expression = CallOf(S_factorial, <<S_x>>)
                   => Combinatorial(n < 0, IF n < 0 THEN 0 ELSE Fact(n))
            /\ expression = CallOf(S_nCr, <<S_x, S_z>>)
                   => Combinatorial(rejected,
                                    IF rejected THEN 0
                                    ELSE Fact(n) \div (Fact(r) * Fact(n - r)))
            /\ expression = CallOf(S_nPr, <<S_x, S_z>>)
                   => Combinatorial(rejected,
                                    IF rejected THEN 0 ELSE Fact(n) \div Fact(n - r))
            /\ expression = T_nCr_5_2_plus_nPr_4_2 => Combinatorial(FALSE, 22)
            /\ expression = T_factorial_minus_1 => Combinatorial(TRUE, 0)

\* nCr(x,z) has been evaluated with x = 4 and z = 2 and has returned 6
C17_Witness ==
    /\ expression = CallOf(S_nCr, <<S_x, S_z>>)
    /\ pc = "evaluated"
    /\ slots = [x_value |-> Q(4, 1), z_value |-> Q(2, 1)]
    /\ result = Q(6, 1)
    /\ EXPRLIB_ERROR = EXPRLIB_SUCCESS

=============================================================================
